---- MODULE Spec2Model ----
(***************************************************************************)
(* RT809F cloud bridge (src/main.py): the device simulator, the bridge     *)
(* manager's WebSocket handler and the REST routes, as a state machine.    *)
(*                                                                         *)
(* One step of the model is one run of a coroutine between two points at   *)
(* which it can be suspended (an await that reaches the event loop).       *)
(* RT809FSimulator.connect and disconnect contain no await of their own,   *)
(* so awaiting them never suspends the caller.                             *)
(***************************************************************************)
EXTENDS Integers, Sequences, FiniteSets, TLC

\* ------------------------------------------------------------------ bounds
MaxClock == 3         \* timestamps stored in one run

\* ------------------------------------------------------- program constants
DEVICE_POOL_SIZE == 5
InitiallyConnected == 2
DefaultReadSize == 1024

API_KEY == "thai_dev_rt809f_2023"

\* The module's globals, had `import random` been among the imports.
ModuleGlobalsWithRandom ==
    {"os", "json", "asyncio", "aiohttp", "logging", "base64", "time", "uuid",
     "datetime", "config", "app", "bridge_manager", "random"}

\* The module's globals, had random, hashlib and logger all been bound.
ModuleGlobalsComplete ==
    {"os", "json", "asyncio", "aiohttp", "logging", "base64", "time", "uuid",
     "datetime", "config", "app", "bridge_manager", "random", "hashlib",
     "logger"}

\* Names bound in the module's global namespace when a request is served:
\* the imports of lines 8-24 and the module-level assignments. Neither
\* `random`, `hashlib` nor `logger` is ever imported or assigned.
ModuleGlobals ==
    {"os", "json", "asyncio", "aiohttp", "logging", "base64", "time", "uuid",
     "datetime", "config", "app", "bridge_manager"}

\* Python's LOAD_GLOBAL: a name that is not bound raises NameError.
NameBound(name) == name \in ModuleGlobals

\* ------------------------------------------------------------------ values
\* The WebSocket connections that can be open at the same time.
Handlers == {1, 2}

\* f"{n:03d}": the three decimal digits of n, zero padded.
Pad3(n) == <<(n \div 100) % 10, (n \div 10) % 10, n % 10>>

\* f"rt809f_{i+1:03d}" for the loop index i of _generate_devices.
DeviceId(i) == <<"rt809f_">> \o Pad3(i + 1)

\* A device id no registry entry has (the path parameter is any string).
UnknownId == <<"rt809f_">> \o Pad3(DEVICE_POOL_SIZE + 4)

\* The device ids requests are issued with: one device that starts connected,
\* one that starts disconnected, and an id that is not in the registry.
DeviceIdInputs == {DeviceId(1), DeviceId(2), UnknownId}

ApiKeyInputs == {API_KEY, "wrong_key"}

SupportedCommands ==
    {"detect_chip", "read_flash", "write_flash", "get_device_info",
     "list_supported_chips"}

\* A command name no branch of execute_command knows (line 217).
UnknownCommand == "erase_all"

\* The commands requests are issued with. Which command it is matters only
\* past line 177; the branches are compared one by one in CommandProcessing.
CommandInputs == {"detect_chip", "read_flash"}

ChipCatalog == {"24C64", "25Q32", "93C46", "M95010"}

VARIABLES
    devices,                \* RT809FSimulator.devices, in insertion order
    connections,            \* RT809FSimulator.connections
    command_history,        \* RT809FSimulator.command_history
    websocket_connections,  \* CloudBridgeManager.websocket_connections
    bridge_sessions,        \* CloudBridgeManager.bridge_sessions
    pc,                     \* where each WebSocket handler is suspended
    dev,                    \* the device_id argument of each handler
    transport,              \* client side of each WebSocket: open or closed
    cur,                    \* the message a handler is processing
    delivered,              \* messages receive_json returned to each handler
    rest_tasks,             \* REST command requests suspended in execute_command
    step,                   \* the step just taken: what came in, what went out
    issued,                 \* the session ids connect has created, in order
    uuids,                  \* uuid.uuid4() values drawn so far
    now                     \* datetime.now(), as a logical clock

vars == <<devices, connections, command_history, websocket_connections,
          bridge_sessions, pc, dev, transport, cur, delivered, rest_tasks,
          step, issued, uuids, now>>

\* ------------------------------------------------------------- the registry
GenerateDevices_AllDisconnected ==
    [k \in 1..DEVICE_POOL_SIZE |->
        [device_id |-> DeviceId(k - 1),
         name      |-> k,
         status    |-> "disconnected",
         port      |-> 8090 + (k - 1),
         last_seen |-> 0]]

\* RT809FSimulator._generate_devices; the dict keeps insertion order.
GenerateDevices ==
    [k \in 1..DEVICE_POOL_SIZE |->
        [device_id |-> DeviceId(k - 1),
         name      |-> k,
         status    |-> IF k - 1 < InitiallyConnected
                       THEN "connected" ELSE "disconnected",
         port      |-> 8090 + (k - 1),
         last_seen |-> 0]]

DeviceKeys(devs) == {devs[k].device_id : k \in 1..Len(devs)}

InRegistry(devs, device_id) == device_id \in DeviceKeys(devs)

IndexOf(devs, device_id) ==
    CHOOSE k \in 1..Len(devs) : devs[k].device_id = device_id

Device(devs, device_id) == devs[IndexOf(devs, device_id)]

Without(f, key) == [k \in (DOMAIN f) \ {key} |-> f[k]]

With(f, key, value) ==
    [k \in (DOMAIN f) \cup {key} |-> IF k = key THEN value ELSE f[k]]

\* uuid.uuid4(): a value no earlier call returned.
Uuid4(drawn) == drawn + 1

\* ------------------------------------------------------------ the simulator
connect_FixedSessionId(devs, conns, drawn, t, device_id) ==
    IF device_id \in {devs[k].device_id : k \in 1..Len(devs)}
    THEN [devices |-> [k \in 1..Len(devs) |->
                          IF devs[k].device_id = device_id
                          THEN [devs[k] EXCEPT !.status = "connected",
                                               !.last_seen = t]
                          ELSE devs[k]],
          connections |-> [k \in (DOMAIN conns) \cup {device_id} |->
                              IF k = device_id
                              THEN [connected_at |-> t, session_id |-> 1]
                              ELSE conns[k]],
          uuids |-> drawn + 1,
          ok |-> TRUE]
    ELSE [devices |-> devs, connections |-> conns, uuids |-> drawn,
          ok |-> FALSE]

connect_KeepsExistingSession(devs, conns, drawn, t, device_id) ==
    IF device_id \in {devs[k].device_id : k \in 1..Len(devs)}
    THEN [devices |-> [k \in 1..Len(devs) |->
                          IF devs[k].device_id = device_id
                          THEN [devs[k] EXCEPT !.status = "connected",
                                               !.last_seen = t]
                          ELSE devs[k]],
          connections |-> [k \in (DOMAIN conns) \cup {device_id} |->
                              IF k \in DOMAIN conns THEN conns[k]
                              ELSE [connected_at |-> t,
                                    session_id |-> drawn + 1]],
          uuids |-> drawn + 1,
          ok |-> TRUE]
    ELSE [devices |-> devs, connections |-> conns, uuids |-> drawn,
          ok |-> FALSE]

\* RT809FSimulator.connect at time t; `drawn` counts the uuid4 values drawn.
connect(devs, conns, drawn, t, device_id) ==
    IF InRegistry(devs, device_id)
    THEN [devices |-> [devs EXCEPT ![IndexOf(devs, device_id)] =
                          [@ EXCEPT !.status = "connected", !.last_seen = t]],
          connections |-> With(conns, device_id,
                               [connected_at |-> t,
                                session_id |-> Uuid4(drawn)]),
          uuids |-> drawn + 1,
          ok |-> TRUE]
    ELSE [devices |-> devs, connections |-> conns, uuids |-> drawn,
          ok |-> FALSE]

disconnect_KeepsStatus(devs, conns, device_id) ==
    IF device_id \in DOMAIN conns
    THEN [devices |-> devs, connections |-> Without(conns, device_id),
          ok |-> TRUE]
    ELSE [devices |-> devs, connections |-> conns, ok |-> FALSE]

disconnect_AllSessions(devs, conns, device_id) ==
    IF device_id \in DOMAIN conns
    THEN [devices |-> [k \in 1..Len(devs) |->
                          IF devs[k].device_id \in DOMAIN conns
                          THEN [devs[k] EXCEPT !.status = "disconnected"]
                          ELSE devs[k]],
          connections |-> [k \in {} |-> 0],
          ok |-> TRUE]
    ELSE [devices |-> devs, connections |-> conns, ok |-> FALSE]

disconnect_KeepsRecord(devs, conns, device_id) ==
    IF device_id \in DOMAIN conns
    THEN [devices |-> [k \in 1..Len(devs) |->
                          IF devs[k].device_id = device_id
                          THEN [devs[k] EXCEPT !.status = "disconnected"]
                          ELSE devs[k]],
          connections |-> conns,
          ok |-> TRUE]
    ELSE [devices |-> devs, connections |-> conns, ok |-> FALSE]

\* RT809FSimulator.disconnect.
disconnect(devs, conns, device_id) ==
    IF device_id \in DOMAIN conns
    THEN [devices |-> IF InRegistry(devs, device_id)
                      THEN [devs EXCEPT ![IndexOf(devs, device_id)] =
                               [@ EXCEPT !.status = "disconnected"]]
                      ELSE devs,
          connections |-> Without(conns, device_id),
          ok |-> TRUE]
    ELSE [devices |-> devs, connections |-> conns, ok |-> FALSE]

\* CommandResponse(success, result, error); execution_time and timestamp are
\* measurements and are left out. An absent result or error is None.
NoResult == [kind |-> "None"]

NoError == "None"

CommandResponse(success, result, error) ==
    [success |-> success, result |-> result, error |-> error]

Returns(response) == [kind |-> "return", response |-> response]

Raises(exception) == [kind |-> "raise", exception |-> exception]

Suspends == [kind |-> "sleep"]

\* Line 177, `await asyncio.sleep(random.uniform(0.1, 1.0))`: the argument is
\* evaluated first, and the coroutine is suspended only if that succeeds.
LatencyDelay ==
    IF NameBound("random") THEN Suspends ELSE Raises("NameError")

execute_command_NoStatusCheck(devs, device_id, command) ==
    IF ~InRegistry(devs, device_id)
    THEN Returns(CommandResponse(FALSE, NoResult, "not_found"))
    ELSE LatencyDelay

execute_command_SuccessWithError(devs, device_id, command) ==
    IF ~InRegistry(devs, device_id)
    THEN Returns(CommandResponse(FALSE, NoResult, "not_found"))
    ELSE IF Device(devs, device_id).status # "connected"
    THEN Returns(CommandResponse(TRUE, NoResult, "not_connected"))
    ELSE LatencyDelay

\* RT809FSimulator.execute_command up to its first suspension (lines 158-177).
execute_command(devs, device_id, command) ==
    IF ~InRegistry(devs, device_id)
    THEN Returns(CommandResponse(FALSE, NoResult, "not_found"))
    ELSE IF Device(devs, device_id).status # "connected"
    THEN Returns(CommandResponse(FALSE, NoResult, "not_connected"))
    ELSE LatencyDelay

\* base64.b64encode(os.urandom(size)): the length of the encoded text, and
\* the number of bytes that decoding the text gives back.
B64EncodedLen(size) == 4 * ((size + 2) \div 3)

B64Padding(size) == (3 - (size % 3)) % 3

B64DecodedLen(encoded_len, padding) == (encoded_len \div 4) * 3 - padding

\* The command processing of lines 180-226, once the delay is over; `chip`
\* is the value random.choice returns, `size` is params["size"], and params
\* holds no "data_size".
CommandProcessing(devs, device_id, command, size, chip) ==
    IF command = "detect_chip"
    THEN IF NameBound("random")
         THEN Returns(CommandResponse(TRUE,
                 [kind |-> "chip", chip_found |-> TRUE, chip_type |-> chip],
                 NoError))
         ELSE Raises("NameError")
    ELSE IF command = "read_flash"
    THEN IF NameBound("hashlib")
         THEN Returns(CommandResponse(TRUE,
                 [kind |-> "flash", data_len |-> B64EncodedLen(size),
                  data_pad |-> B64Padding(size), size |-> size], NoError))
         ELSE Raises("NameError")
    ELSE IF command = "write_flash"
    THEN Returns(CommandResponse(TRUE,
            [kind |-> "written", bytes_written |-> 0,
             verification_passed |-> TRUE], NoError))
    ELSE IF command = "get_device_info"
    THEN Returns(CommandResponse(TRUE,
            [kind |-> "device", device |-> Device(devs, device_id)], NoError))
    ELSE IF command = "list_supported_chips"
    THEN Returns(CommandResponse(TRUE,
            [kind |-> "chips",
             chips |-> <<"24C01", "24C64", "25Q32", "93C46", "M95010">>],
            NoError))
    ELSE Returns(CommandResponse(FALSE, NoResult, "unknown_command"))

\* The entry of lines 228-233.
HistoryEntry(device_id, command, response) ==
    [device_id |-> device_id, command |-> command, response |-> response]

\* ------------------------------------------------------------ initial state
EmptyMap == [k \in {} |-> 0]

NoDevice == <<>>

NoMessage == [type |-> "None"]

\* The record of one step, as seen from outside: the REST request and its
\* answer, or what a WebSocket handler reacted to (`on`), the events it sent
\* and the exception that left handle_device_connection, if it ended.
NoStep == [kind |-> "None"]

RestExchange(op, device_id, api_key, command, code, body) ==
    [kind |-> "rest", op |-> op, device_id |-> device_id, api_key |-> api_key,
     command |-> command, code |-> code, body |-> body]

WsStep(h, device_id, on, sends, raised) ==
    [kind |-> "ws", h |-> h, device_id |-> device_id, on |-> on,
     sends |-> sends, raised |-> raised]

On(type) == [type |-> type]

OnCommand(command) == [type |-> "command", command |-> command]

OnDataTransfer(given) == [type |-> "data_transfer", has_id |-> given]

Running == "None"

Init ==
    /\ devices = GenerateDevices
    /\ connections = EmptyMap
    /\ command_history = <<>>
    /\ websocket_connections = EmptyMap
    /\ bridge_sessions = EmptyMap
    /\ pc = [h \in Handlers |-> "idle"]
    /\ dev = [h \in Handlers |-> NoDevice]
    /\ transport = [h \in Handlers |-> "open"]
    /\ cur = [h \in Handlers |-> NoMessage]
    /\ delivered = [h \in Handlers |-> 0]
    /\ rest_tasks = {}
    /\ step = NoStep
    /\ issued = <<>>
    /\ uuids = 0
    /\ now = 0

simVars == <<devices, connections, command_history>>

bridgeVars == <<websocket_connections, bridge_sessions>>

handlerVars == <<pc, dev, transport, cur, delivered>>

\* ---------------------------------------------------------------- the clock
\* datetime.now() is strictly increasing: every step that stores a timestamp
\* reads the clock once (the readings of one step are microseconds apart
\* and count as one) and the next such step reads a later value.
Later(t) == t + 1

\* The session ids created so far, after a call of connect returned r.
Issued(r, device_id) ==
    IF r.ok THEN Append(issued, r.connections[device_id].session_id)
    ELSE issued

\* ----------------------------------------------------------- the REST routes
connect_device_ConnectsFirst(device_id, api_key) ==
    /\ InRegistry(devices, device_id) => now < MaxClock
    /\ LET r == connect(devices, connections, uuids, now, device_id) IN
       /\ devices' = r.devices
       /\ connections' = r.connections
       /\ uuids' = r.uuids
       /\ issued' = Issued(r, device_id)
       /\ now' = IF r.ok THEN Later(now) ELSE now
       /\ step' = RestExchange("connect", device_id, api_key, "None",
                     IF api_key # API_KEY THEN 401
                     ELSE IF ~r.ok THEN 404 ELSE 200,
                     IF api_key # API_KEY \/ ~r.ok THEN [kind |-> "error"]
                     ELSE [kind |-> "connected", success |-> TRUE,
                           session_id |->
                               r.connections[device_id].session_id])
    /\ UNCHANGED <<command_history, bridgeVars, handlerVars, rest_tasks>>

\* POST /api/devices/{device_id}/connect
connect_device(device_id, api_key) ==
    /\ (api_key = API_KEY /\ InRegistry(devices, device_id)) => now < MaxClock
    /\ IF api_key # API_KEY
       THEN /\ step' = RestExchange("connect", device_id, api_key, "None", 401,
                                    [kind |-> "error"])
            /\ UNCHANGED <<devices, connections, issued, uuids, now>>
       ELSE IF ~InRegistry(devices, device_id)
       THEN /\ step' = RestExchange("connect", device_id, api_key, "None", 404,
                                    [kind |-> "error"])
            /\ UNCHANGED <<devices, connections, issued, uuids, now>>
       ELSE LET r == connect(devices, connections, uuids, now, device_id) IN
            /\ devices' = r.devices
            /\ connections' = r.connections
            /\ uuids' = r.uuids
            /\ issued' = Issued(r, device_id)
            /\ now' = Later(now)
            /\ step' = RestExchange("connect", device_id, api_key, "None", 200,
                          IF r.ok
                          THEN [kind |-> "connected", success |-> TRUE,
                                session_id |->
                                    r.connections[device_id].session_id]
                          ELSE [kind |-> "failed", success |-> FALSE])
    /\ UNCHANGED <<command_history, bridgeVars, handlerVars, rest_tasks>>

execute_device_command_Disconnects(device_id, command) ==
    /\ LET r == disconnect(devices, connections, device_id) IN
       /\ devices' = r.devices
       /\ connections' = r.connections
    /\ step' = RestExchange("command", device_id, "None", command, 500,
                            [kind |-> "error"])
    /\ UNCHANGED <<command_history, bridgeVars, handlerVars, rest_tasks,
                   issued, uuids, now>>

\* POST /api/devices/{device_id}/command, up to the first suspension.
execute_device_command(device_id, command) ==
    /\ IF ~InRegistry(devices, device_id)
       THEN /\ step' = RestExchange("command", device_id, "None", command, 404,
                                    [kind |-> "error"])
            /\ UNCHANGED rest_tasks
       ELSE LET o == execute_command(devices, device_id, command) IN
            IF o.kind = "return"
            THEN /\ step' = RestExchange("command", device_id, "None", command,
                               200, [kind |-> "response",
                                     response |-> o.response])
                 /\ UNCHANGED rest_tasks
            ELSE IF o.kind = "raise"
            THEN /\ step' = RestExchange("command", device_id, "None", command,
                               500, [kind |-> "error"])
                 /\ UNCHANGED rest_tasks
            ELSE /\ rest_tasks' = rest_tasks \cup
                        {[device_id |-> device_id, command |-> command]}
                 /\ step' = NoStep
    /\ UNCHANGED <<simVars, bridgeVars, handlerVars, issued, uuids, now>>

get_device_UpdatesLastSeen(device_id) ==
    /\ step' = IF ~InRegistry(devices, device_id)
               THEN RestExchange("get_device", device_id, "None", "None", 404,
                                 [kind |-> "error"])
               ELSE RestExchange("get_device", device_id, "None", "None", 200,
                                 [kind |-> "device",
                                  device |-> Device(devices, device_id)])
    /\ devices' = [k \in 1..Len(devices) |->
                      IF devices[k].device_id = device_id
                      THEN [devices[k] EXCEPT !.last_seen = now]
                      ELSE devices[k]]
    /\ UNCHANGED <<connections, command_history, bridgeVars, handlerVars,
                   rest_tasks, issued, uuids, now>>

\* GET /api/devices/{device_id}
get_device(device_id) ==
    /\ step' = IF ~InRegistry(devices, device_id)
               THEN RestExchange("get_device", device_id, "None", "None", 404,
                                 [kind |-> "error"])
               ELSE RestExchange("get_device", device_id, "None", "None", 200,
                                 [kind |-> "device",
                                  device |-> Device(devices, device_id)])
    /\ UNCHANGED <<simVars, bridgeVars, handlerVars, rest_tasks, issued, uuids,
                   now>>

\* GET /api/devices
list_devices ==
    /\ step' = RestExchange("list_devices", NoDevice, "None", "None", 200,
                            [kind |-> "devices", devices |-> devices])
    /\ UNCHANGED <<simVars, bridgeVars, handlerVars, rest_tasks, issued, uuids,
                   now>>

\* GET /health
health_check ==
    /\ step' = RestExchange("health", NoDevice, "None", "None", 200,
                            [kind |-> "health",
                             device_count |-> Len(devices)])
    /\ UNCHANGED <<simVars, bridgeVars, handlerVars, rest_tasks, issued, uuids,
                   now>>

\* ------------------------------------------------- the WebSocket handler
\* What sending on WebSocket `target` can do: a send on an open transport
\* delivers the event; on a transport the client has closed, the server
\* library either raises or drops the frame.
SendOutcomes(target) ==
    IF transport[target] = "open" THEN {"sent"} ELSE {"dropped", "raised"}

Sends(target, event, outcome) ==
    IF outcome = "sent" THEN <<[to |-> target, event |-> event]>> ELSE <<>>

Cleanup_KeepsBridgeSession(h, on, exception) ==
    LET r == disconnect(devices, connections, dev[h]) IN
    /\ devices' = r.devices
    /\ connections' = r.connections
    /\ websocket_connections' = Without(websocket_connections, dev[h])
    /\ bridge_sessions' = bridge_sessions
    /\ pc' = [pc EXCEPT ![h] = "idle"]
    /\ dev' = [dev EXCEPT ![h] = NoDevice]
    /\ transport' = [transport EXCEPT ![h] = "open"]
    /\ cur' = [cur EXCEPT ![h] = NoMessage]
    /\ delivered' = [delivered EXCEPT ![h] = 0]
    /\ step' = WsStep(h, dev[h], on, <<>>, exception)

\* The finally clause of handle_device_connection (lines 289-295), after
\* which `exception` leaves the coroutine and the socket is gone.
Cleanup(h, on, exception) ==
    LET r == disconnect(devices, connections, dev[h]) IN
    /\ devices' = r.devices
    /\ connections' = r.connections
    /\ websocket_connections' = Without(websocket_connections, dev[h])
    /\ bridge_sessions' = Without(bridge_sessions, dev[h])
    /\ pc' = [pc EXCEPT ![h] = "idle"]
    /\ dev' = [dev EXCEPT ![h] = NoDevice]
    /\ transport' = [transport EXCEPT ![h] = "open"]
    /\ cur' = [cur EXCEPT ![h] = NoMessage]
    /\ delivered' = [delivered EXCEPT ![h] = 0]
    /\ step' = WsStep(h, dev[h], on, <<>>, exception)

\* `except WebSocketDisconnect:` (lines 287-288): logger.info is evaluated
\* in the except clause, then the finally clause runs.
OnWebSocketDisconnect ==
    IF NameBound("logger") THEN "Returned" ELSE "NameError"

\* Lines 251-269: accept, register the socket and the session, connect the
\* simulated device and send the confirmation. A send is taken as part of
\* the step that makes it: the handler reads no shared state between a send
\* and its next await. WebSocket objects are interchangeable: a new one
\* takes the lowest free slot.
WSOpen(h, device_id) ==
    /\ pc[h] = "idle"
    /\ \A g \in Handlers : g < h => pc[g] # "idle"
    /\ now < MaxClock
    /\ LET r == connect(devices, connections, uuids, now, device_id) IN
       /\ devices' = r.devices
       /\ connections' = r.connections
       /\ uuids' = r.uuids
       /\ issued' = Issued(r, device_id)
    /\ websocket_connections' = With(websocket_connections, device_id, h)
    /\ bridge_sessions' = With(bridge_sessions, device_id,
                               [connected_at |-> now, last_activity |-> now,
                                message_count |-> 0])
    /\ pc' = [pc EXCEPT ![h] = "receiving"]
    /\ dev' = [dev EXCEPT ![h] = device_id]
    /\ step' = WsStep(h, device_id, On("accept"),
                      Sends(h, [type |-> "connection_established",
                                device_id |-> device_id], "sent"),
                      Running)
    /\ now' = Later(now)
    /\ UNCHANGED <<command_history, transport, cur, delivered, rest_tasks>>

\* The client closes its side of the WebSocket.
ClientClose(h) ==
    /\ pc[h] # "idle"
    /\ transport[h] = "open"
    /\ transport' = [transport EXCEPT ![h] = "closed"]
    /\ step' = NoStep
    /\ UNCHANGED <<simVars, bridgeVars, pc, dev, cur, delivered, rest_tasks,
                   issued, uuids, now>>

WSDisconnect_KeepsWaiting(h) ==
    /\ pc[h] = "receiving"
    /\ transport[h] = "closed"
    /\ step' = WsStep(h, dev[h], On("disconnect"), <<>>, Running)
    /\ UNCHANGED <<simVars, bridgeVars, handlerVars, rest_tasks, issued, uuids,
                   now>>

\* receive_json raises WebSocketDisconnect (line 274, then 287-295).
WSDisconnect(h) ==
    /\ pc[h] = "receiving"
    /\ transport[h] = "closed"
    /\ Cleanup(h, On("disconnect"), OnWebSocketDisconnect)
    /\ UNCHANGED <<command_history, rest_tasks, issued, uuids, now>>

\* receive_json raises something else: a frame that is not JSON, or a call
\* the server library rejects. Neither except clause matches (lines 283, 287).
WSReceiveFault(h) ==
    /\ pc[h] = "receiving"
    /\ transport[h] = "open"
    /\ Cleanup(h, On("fault"), "ReceiveError")
    /\ UNCHANGED <<command_history, rest_tasks, issued, uuids, now>>

WSTimeout_CountsAsMessage(h) ==
    /\ pc[h] = "receiving"
    /\ transport[h] = "open"
    /\ dev[h] \in DOMAIN bridge_sessions
    /\ bridge_sessions[dev[h]].message_count < MaxClock
    /\ bridge_sessions' = [bridge_sessions EXCEPT
                              ![dev[h]].message_count = @ + 1]
    /\ step' = WsStep(h, dev[h], On("timeout"),
                      Sends(h, [type |-> "ping"], "sent"), Running)
    /\ UNCHANGED <<simVars, websocket_connections, handlerVars, rest_tasks,
                   issued, uuids, now>>

\* asyncio.TimeoutError (lines 283-285): one ping on the handler's socket.
WSTimeout(h) ==
    /\ pc[h] = "receiving"
    /\ transport[h] = "open"
    /\ step' = WsStep(h, dev[h], On("timeout"),
                      Sends(h, [type |-> "ping"], "sent"), Running)
    /\ UNCHANGED <<simVars, bridgeVars, handlerVars, rest_tasks, issued, uuids,
                   now>>

\* Lines 277-278: the session record after one more inbound message.
Touched(sessions, device_id, t) ==
    [sessions EXCEPT ![device_id] =
        [@ EXCEPT !.last_activity = t, !.message_count = @ + 1]]

Delivers_WhileBusy(h) ==
    /\ pc[h] \in {"receiving", "transfer"}
    /\ transport[h] = "open"

\* receive_json returns a value (line 274): the handler is waiting in it.
Delivers(h) ==
    /\ pc[h] = "receiving"
    /\ transport[h] = "open"

\* Lines 309-314 and 332-338: the event goes to whichever socket is
\* registered for the device id now, if any; then the handler is back at
\* receive_json, with `count` messages delivered and the clock at t.
Reply(h, on, event, sessions, count, t) ==
    IF dev[h] \in DOMAIN websocket_connections
    THEN \E outcome \in SendOutcomes(websocket_connections[dev[h]]) :
            IF outcome = "raised"
            THEN /\ Cleanup(h, on, "SendError")
                 /\ UNCHANGED now
            ELSE /\ step' = WsStep(h, dev[h], on,
                                   Sends(websocket_connections[dev[h]], event,
                                         outcome), Running)
                 /\ now' = t
                 /\ bridge_sessions' = sessions
                 /\ pc' = [pc EXCEPT ![h] = "receiving"]
                 /\ cur' = [cur EXCEPT ![h] = NoMessage]
                 /\ delivered' = [delivered EXCEPT ![h] = count]
                 /\ UNCHANGED <<devices, connections, websocket_connections,
                                dev, transport>>
    ELSE /\ step' = WsStep(h, dev[h], on, <<>>, Running)
         /\ now' = t
         /\ bridge_sessions' = sessions
         /\ pc' = [pc EXCEPT ![h] = "receiving"]
         /\ cur' = [cur EXCEPT ![h] = NoMessage]
         /\ delivered' = [delivered EXCEPT ![h] = count]
         /\ UNCHANGED <<devices, connections, websocket_connections, dev,
                        transport>>

\* A message arrives after another handler's cleanup removed the session
\* record of this device id: line 277 raises KeyError.
WSReceiveNoSession(h) ==
    /\ Delivers(h)
    /\ dev[h] \notin DOMAIN bridge_sessions
    /\ Cleanup(h, On("message"), "KeyError")
    /\ UNCHANGED <<command_history, rest_tasks, issued, uuids, now>>

\* {"type": "command", "command": command} (lines 301-314).
WSCommand(h, command) ==
    /\ Delivers(h)
    /\ dev[h] \in DOMAIN bridge_sessions
    /\ LET o == execute_command(devices, dev[h], command)
           sessions == Touched(bridge_sessions, dev[h], now)
       IN  IF o.kind = "return"
           THEN /\ now < MaxClock
                /\ Reply(h, OnCommand(command),
                         [type |-> "command_response", command |-> command,
                          response |-> o.response, seq |-> delivered[h] + 1],
                         sessions, delivered[h] + 1, Later(now))
           ELSE IF o.kind = "raise"
           THEN /\ Cleanup(h, OnCommand(command), o.exception)
                /\ UNCHANGED now
           ELSE /\ now < MaxClock
                /\ now' = Later(now)
                /\ bridge_sessions' = sessions
                /\ pc' = [pc EXCEPT ![h] = "executing"]
                /\ cur' = [cur EXCEPT ![h] =
                              [type |-> "command", command |-> command,
                               seq |-> delivered[h] + 1]]
                /\ delivered' = [delivered EXCEPT ![h] = @ + 1]
                /\ step' = WsStep(h, dev[h], OnCommand(command), <<>>, Running)
                /\ UNCHANGED <<devices, connections, websocket_connections,
                               dev, transport>>
    /\ UNCHANGED <<command_history, rest_tasks, issued, uuids>>

\* {"type": "status_update"} (lines 316-318): logger.info is evaluated.
WSStatusUpdate(h) ==
    /\ Delivers(h)
    /\ dev[h] \in DOMAIN bridge_sessions
    /\ IF NameBound("logger")
       THEN /\ now < MaxClock
            /\ now' = Later(now)
            /\ bridge_sessions' = Touched(bridge_sessions, dev[h], now)
            /\ delivered' = [delivered EXCEPT ![h] = @ + 1]
            /\ step' = WsStep(h, dev[h], On("status_update"), <<>>, Running)
            /\ UNCHANGED <<devices, connections, websocket_connections, pc,
                           dev, transport, cur>>
       ELSE /\ Cleanup(h, On("status_update"), "NameError")
            /\ UNCHANGED now
    /\ UNCHANGED <<command_history, rest_tasks, issued, uuids>>

\* {"type": "data_transfer"} (lines 320-330), to the sleep of line 330;
\* `given` says whether the message carries a transfer_id. Only a uuid4
\* value that is used is counted as drawn.
WSDataTransfer(h, given) ==
    /\ Delivers(h)
    /\ dev[h] \in DOMAIN bridge_sessions
    /\ now < MaxClock
    /\ now' = Later(now)
    /\ bridge_sessions' = Touched(bridge_sessions, dev[h], now)
    /\ delivered' = [delivered EXCEPT ![h] = @ + 1]
    /\ uuids' = IF given THEN uuids ELSE uuids + 1
    /\ pc' = [pc EXCEPT ![h] = "transfer"]
    /\ cur' = [cur EXCEPT ![h] =
                  [type |-> "data_transfer",
                   transfer_id |-> IF given
                                   THEN [from |-> "client", id |-> 1]
                                   ELSE [from |-> "uuid4",
                                         id |-> Uuid4(uuids)],
                   seq |-> delivered[h] + 1]]
    /\ step' = WsStep(h, dev[h], OnDataTransfer(given), <<>>, Running)
    /\ UNCHANGED <<simVars, websocket_connections, dev, transport, rest_tasks,
                   issued>>

\* A JSON object of any other type, or with none: no branch of
\* _process_device_message matches.
WSOtherMessage(h) ==
    /\ Delivers(h)
    /\ dev[h] \in DOMAIN bridge_sessions
    /\ now < MaxClock
    /\ now' = Later(now)
    /\ bridge_sessions' = Touched(bridge_sessions, dev[h], now)
    /\ delivered' = [delivered EXCEPT ![h] = @ + 1]
    /\ step' = WsStep(h, dev[h], On("other"), <<>>, Running)
    /\ UNCHANGED <<simVars, websocket_connections, pc, dev, transport, cur,
                   rest_tasks, issued, uuids>>

\* A JSON value that is not an object: data.get raises AttributeError
\* (line 299), after lines 277-278 ran.
WSNotAnObject(h) ==
    /\ Delivers(h)
    /\ dev[h] \in DOMAIN bridge_sessions
    /\ Cleanup(h, On("not_an_object"), "AttributeError")
    /\ UNCHANGED <<command_history, rest_tasks, issued, uuids, now>>

\* The coroutines suspended in asyncio.sleep.
SleepingTasks ==
    {[kind |-> "ws", h |-> h] :
        h \in {g \in Handlers : pc[g] \in {"transfer", "executing"}}}
    \cup {[kind |-> "rest", task |-> t] : t \in rest_tasks}

\* asyncio.sleep returns: the rest of _handle_data_transfer (lines 332-338)
\* or of execute_command (lines 180-235) and of its caller.
SleepDone(task) ==
    /\ task \in SleepingTasks
    /\ IF task.kind = "ws" /\ pc[task.h] = "transfer"
       THEN /\ Reply(task.h, On("wake"),
                     [type |-> "transfer_complete",
                      transfer_id |-> cur[task.h].transfer_id,
                      seq |-> cur[task.h].seq],
                     bridge_sessions, delivered[task.h], now)
            /\ UNCHANGED <<command_history, rest_tasks>>
       ELSE IF task.kind = "ws"
       THEN \E chip \in ChipCatalog :
            LET h == task.h
                o == CommandProcessing(devices, dev[h], cur[h].command,
                                       DefaultReadSize, chip)
            IN  IF o.kind = "raise"
                THEN /\ Cleanup(h, On("wake"), o.exception)
                     /\ UNCHANGED <<command_history, rest_tasks, now>>
                ELSE /\ command_history' = Append(command_history,
                            HistoryEntry(dev[h], cur[h].command, o.response))
                     /\ Reply(h, On("wake"),
                              [type |-> "command_response",
                               command |-> cur[h].command,
                               response |-> o.response, seq |-> cur[h].seq],
                              bridge_sessions, delivered[h], now)
                     /\ UNCHANGED rest_tasks
       ELSE \E chip \in ChipCatalog :
            LET t == task.task
                o == CommandProcessing(devices, t.device_id, t.command,
                                       DefaultReadSize, chip)
            IN  /\ rest_tasks' = rest_tasks \ {t}
                /\ IF o.kind = "raise"
                   THEN /\ step' = RestExchange("command", t.device_id,
                                      "None", t.command, 500,
                                      [kind |-> "error"])
                        /\ UNCHANGED command_history
                   ELSE /\ step' = RestExchange("command", t.device_id,
                                      "None", t.command, 200,
                                      [kind |-> "response",
                                       response |-> o.response])
                        /\ command_history' = Append(command_history,
                               HistoryEntry(t.device_id, t.command,
                                            o.response))
                /\ UNCHANGED <<devices, connections, bridgeVars, handlerVars,
                               now>>
    /\ UNCHANGED <<issued, uuids>>

\* ------------------------------------------------------------ specification
Next ==
    \/ \E d \in DeviceIdInputs, k \in ApiKeyInputs : connect_device(d, k)
    \/ \E d \in DeviceIdInputs, c \in CommandInputs :
          execute_device_command(d, c)
    \/ \E d \in DeviceIdInputs : get_device(d)
    \/ list_devices
    \/ health_check
    \/ \E h \in Handlers, d \in DeviceIdInputs : WSOpen(h, d)
    \/ \E h \in Handlers : ClientClose(h)
    \/ \E h \in Handlers : WSDisconnect(h)
    \/ \E h \in Handlers : WSReceiveFault(h)
    \/ \E h \in Handlers : WSTimeout(h)
    \/ \E h \in Handlers : WSReceiveNoSession(h)
    \/ \E h \in Handlers, c \in CommandInputs : WSCommand(h, c)
    \/ \E h \in Handlers : WSStatusUpdate(h)
    \/ \E h \in Handlers, given \in BOOLEAN : WSDataTransfer(h, given)
    \/ \E h \in Handlers : WSOtherMessage(h)
    \/ \E h \in Handlers : WSNotAnObject(h)
    \/ \E task \in SleepingTasks : SleepDone(task)

Spec == Init /\ [][Next]_vars

\* The event loop resumes a coroutine whose await has completed: a handler
\* waiting in receive_json on a transport that is closed gets
\* WebSocketDisconnect, and a handler in asyncio.sleep wakes up.
Fairness ==
    \A h \in Handlers :
        /\ WF_vars(WSDisconnect(h))
        /\ WF_vars(SleepDone([kind |-> "ws", h |-> h]))

LiveSpec == Init /\ [][Next]_vars /\ Fairness

\* ------------------------------------------------------------------ claims
Status(device_id) == Device(devices, device_id).status

Exited == step.kind = "ws" /\ step.raised # Running

RestStep(op) == step.kind = "rest" /\ step.op = op

\* C1: when handle_device_connection ends for a device id, by whatever
\* route, the id is in neither websocket_connections nor bridge_sessions,
\* the simulator holds no session record for it and, if the id is in the
\* registry, the device's status is "disconnected".
C1_CleanupOnExit ==
    Exited =>
        /\ step.device_id \notin DOMAIN websocket_connections
        /\ step.device_id \notin DOMAIN bridge_sessions
        /\ step.device_id \notin DOMAIN connections
        /\ InRegistry(devices, step.device_id) =>
              Status(step.device_id) = "disconnected"

C1_Witness ==
    /\ Exited
    /\ step.raised = "AttributeError"
    /\ step.device_id = DeviceId(1)
    /\ Status(DeviceId(1)) = "disconnected"

NoRepeats(seq) ==
    \A i, j \in 1..Len(seq) : i # j => seq[i] # seq[j]

\* C2: a connect call on a registry device (the REST route with the right
\* key, or the simulator's connect called by the WebSocket handler) leaves
\* the device "connected" with a session record, the REST answer carries
\* that record's session id, and the id differs from every session id an
\* earlier connect created, on any device.
C2_ConnectCreatesFreshSession ==
    /\ NoRepeats(issued)
    /\ (RestStep("connect") /\ step.api_key = API_KEY
            /\ InRegistry(devices, step.device_id)) =>
          /\ step.code = 200
          /\ step.body.kind = "connected"
          /\ Status(step.device_id) = "connected"
          /\ step.device_id \in DOMAIN connections
          /\ connections[step.device_id].session_id = step.body.session_id
          /\ Len(issued) > 0
          /\ issued[Len(issued)] = step.body.session_id
    /\ (step.kind = "ws" /\ step.on.type = "accept"
            /\ InRegistry(devices, step.device_id)) =>
          /\ Status(step.device_id) = "connected"
          /\ step.device_id \in DOMAIN connections
          /\ Len(issued) > 0
          /\ issued[Len(issued)] = connections[step.device_id].session_id

\* The second connect of the run, on a device that was disconnected until
\* then, after a connect on another device.
C2_Witness ==
    /\ RestStep("connect")
    /\ step.code = 200
    /\ step.device_id = DeviceId(2)
    /\ Len(issued) = 2
    /\ DeviceId(1) \in DOMAIN connections
    /\ connections[DeviceId(1)].session_id = issued[1]
    /\ connections[DeviceId(2)].session_id = issued[2]

Failure(response) ==
    /\ response.success = FALSE
    /\ response.error # NoError
    /\ response.result = NoResult

\* C3: a command executed on a registry device whose status is not
\* "connected" is answered with success = false, an error message and no
\* result: the REST route answers 200 with that response, and a WebSocket
\* handler that goes on after the command has sent nothing but that response.
C3_NotConnectedFails ==
    /\ (RestStep("command") /\ InRegistry(devices, step.device_id)
            /\ Status(step.device_id) # "connected") =>
          /\ step.code = 200
          /\ Failure(step.body.response)
    /\ (step.kind = "ws" /\ step.on.type = "command"
            /\ step.raised = Running
            /\ InRegistry(devices, step.device_id)
            /\ Status(step.device_id) # "connected") =>
          \A i \in 1..Len(step.sends) :
              /\ step.sends[i].event.type = "command_response"
              /\ Failure(step.sends[i].event.response)

C3_Witness ==
    /\ RestStep("command")
    /\ step.device_id = DeviceId(2)
    /\ Status(DeviceId(2)) = "disconnected"
    /\ step.code = 200
    /\ step.body.response.error = "not_connected"

SuccessIffNoError(response) ==
    response.success <=> (response.error = NoError)

\* C4: in every CommandResponse, success is true exactly when error is
\* None: in the responses the REST route and the WebSocket handler hand
\* out, in the responses recorded in the history, and in what each branch of
\* the command processing returns.
C4_SuccessIffNoError ==
    /\ (RestStep("command") /\ step.code = 200) =>
          SuccessIffNoError(step.body.response)
    /\ step.kind = "ws" =>
          \A i \in 1..Len(step.sends) :
              step.sends[i].event.type = "command_response" =>
                  SuccessIffNoError(step.sends[i].event.response)
    /\ \A i \in 1..Len(command_history) :
          SuccessIffNoError(command_history[i].response)
    /\ \A d \in DeviceIdInputs, c \in SupportedCommands \cup {UnknownCommand} :
          /\ execute_command(devices, d, c).kind = "return" =>
                SuccessIffNoError(execute_command(devices, d, c).response)
          /\ InRegistry(devices, d) =>
                \A chip \in ChipCatalog :
                    LET o == CommandProcessing(devices, d, c,
                                               DefaultReadSize, chip)
                    IN  o.kind = "return" => SuccessIffNoError(o.response)

C4_Witness ==
    /\ step.kind = "ws"
    /\ step.on.type = "command"
    /\ Len(step.sends) = 1
    /\ step.sends[1].event.response.success = FALSE
    /\ step.sends[1].event.response.error = "not_found"

\* C5: the REST connect route answers 401 when the key is wrong, also for
\* an id that is not in the registry, and 404 when the key is right and the
\* id is unknown; a request answered 401 or 404 changes nothing: no device
\* record, no session record, no map of the bridge, no handler.
C5_RejectedConnectChangesNothing ==
    [][ (step'.kind = "rest" /\ step'.op = "connect") =>
           /\ step'.api_key # API_KEY => step'.code = 401
           /\ (step'.api_key = API_KEY
                   /\ ~InRegistry(devices, step'.device_id)) =>
                 step'.code = 404
           /\ step'.code \in {401, 404} =>
                 UNCHANGED <<simVars, bridgeVars, handlerVars, rest_tasks,
                             issued, uuids, now>> ]_vars

C5_Witness ==
    /\ RestStep("connect")
    /\ step.device_id = UnknownId
    /\ step.api_key # API_KEY
    /\ step.code = 401

\* C6: before any connect or disconnect, GET /api/devices lists exactly
\* five devices, in the order rt809f_001 .. rt809f_005, the first two
\* "connected" and the other three "disconnected".
C6_InitialDeviceList ==
    (RestStep("list_devices") /\ now = 0) =>
        /\ Len(step.body.devices) = 5
        /\ \A k \in 1..5 :
              /\ step.body.devices[k].device_id = <<"rt809f_", 0, 0, k>>
              /\ step.body.devices[k].status =
                    IF k <= 2 THEN "connected" ELSE "disconnected"

C6_Witness ==
    /\ RestStep("list_devices")
    /\ now = 0
    /\ Len(step.body.devices) = 5

\* C6 as the specification words it: the ids are device_001 .. device_005.
C6_Original ==
    (RestStep("list_devices") /\ now = 0) =>
        /\ Len(step.body.devices) = 5
        /\ \A k \in 1..5 :
              /\ step.body.devices[k].device_id = <<"device_", 0, 0, k>>
              /\ step.body.devices[k].status =
                    IF k <= 2 THEN "connected" ELSE "disconnected"

\* C7: a detect_chip command on a device on which connect has succeeded,
\* with no disconnect since, is answered with success = true,
\* chip_found = true and a chip_type of the catalog.
C7_DetectChipAfterConnect ==
    (RestStep("command") /\ step.command = "detect_chip"
         /\ step.device_id \in DOMAIN connections
         /\ InRegistry(devices, step.device_id)) =>
        /\ step.code = 200
        /\ step.body.response.success = TRUE
        /\ step.body.response.result.kind = "chip"
        /\ step.body.response.result.chip_found = TRUE
        /\ step.body.response.result.chip_type \in ChipCatalog

\* C8: a receive timeout makes the handler send one ping, on its own
\* socket, and nothing else: the session record, the device, both maps and
\* the handler itself are as before, and the handler goes on receiving.
C8_TimeoutOnlyPings ==
    [][ \A h \in Handlers :
           (step'.kind = "ws" /\ step'.h = h /\ step'.on.type = "timeout") =>
              /\ step'.sends = <<[to |-> h, event |-> [type |-> "ping"]]>>
              /\ step'.raised = Running
              /\ pc'[h] = "receiving"
              /\ UNCHANGED <<simVars, bridgeVars, handlerVars, rest_tasks,
                             issued, uuids, now>> ]_vars

C8_Witness ==
    /\ step.kind = "ws"
    /\ step.on.type = "timeout"
    /\ Len(step.sends) = 1
    /\ step.device_id \in DOMAIN bridge_sessions
    /\ bridge_sessions[step.device_id].message_count = 1

\* C9: a handler processes its messages one at a time, in arrival order:
\* while it is processing, the message in hand is the last one received (no
\* later message has been taken), and every reply it sends answers the last
\* message received.
C9_OneAtATimeInOrder ==
    \A h \in Handlers :
        /\ pc[h] \in {"transfer", "executing"} => cur[h].seq = delivered[h]
        /\ pc[h] = "receiving" => cur[h] = NoMessage
        /\ (step.kind = "ws" /\ step.h = h /\ step.raised = Running) =>
              \A i \in 1..Len(step.sends) :
                  "seq" \in DOMAIN step.sends[i].event =>
                      step.sends[i].event.seq = delivered[h]

\* The reply to the second message of a connection, sent after a sleep.
C9_Witness ==
    /\ step.kind = "ws"
    /\ step.on.type = "wake"
    /\ Len(step.sends) = 1
    /\ step.sends[1].event.type = "transfer_complete"
    /\ step.sends[1].event.seq = 2

\* The executions of execute_command that have passed the precondition
\* checks and not yet produced their result, per device.
InFlight(device_id) ==
    Cardinality({h \in Handlers :
                    pc[h] = "executing" /\ dev[h] = device_id})
    + Cardinality({t \in rest_tasks : t.device_id = device_id})

C11_EveryResponseIsLogged ==
    (RestStep("command") /\ step.code = 200) =>
        /\ Len(command_history) > 0
        /\ command_history[Len(command_history)] =
              HistoryEntry(step.device_id, step.command, step.body.response)

\* C12: a WebSocket session ends only when its own transport closes: when
\* another WebSocket of the same device id is closed by its client and its
\* handler ends, a handler of that id whose transport is still open keeps
\* the device's bridge session record and transport entry, and the device
\* stays "connected".
C12_SessionOutlivesOtherSockets ==
    \A h \in Handlers :
        (/\ pc[h] # "idle"
         /\ transport[h] = "open"
         /\ step.kind = "ws"
         /\ step.on.type = "disconnect"
         /\ step.h # h
         /\ step.device_id = dev[h]) =>
            /\ dev[h] \in DOMAIN bridge_sessions
            /\ dev[h] \in DOMAIN websocket_connections
            /\ InRegistry(devices, dev[h]) => Status(dev[h]) = "connected"

\* What a map holds about one device id.
Entry(f, key) == IF key \in DOMAIN f THEN <<f[key]>> ELSE <<>>

\* The device id a step is about, if it is about one.
Subject(s) == IF s.kind = "None" THEN NoDevice ELSE s.device_id

\* A step leaves what is held about every id but its subject as it was.
OthersUntouched ==
    /\ Len(devices') = Len(devices)
    /\ \A k \in 1..Len(devices) :
          devices[k].device_id # Subject(step') => devices'[k] = devices[k]
    /\ \A b \in (DOMAIN connections \cup DOMAIN connections')
                    \ {Subject(step')} :
          Entry(connections, b)' = Entry(connections, b)
    /\ \A b \in (DOMAIN bridge_sessions \cup DOMAIN bridge_sessions')
                    \ {Subject(step')} :
          Entry(bridge_sessions, b)' = Entry(bridge_sessions, b)
    /\ \A b \in (DOMAIN websocket_connections
                    \cup DOMAIN websocket_connections')
                    \ {Subject(step')} :
          Entry(websocket_connections, b)' = Entry(websocket_connections, b)

\* C13: sessions of different devices are independent: a step on device A
\* (a REST connect or command, a WebSocket open, message, timeout, end of
\* handler) leaves the status, last_seen, simulator session record, bridge
\* session record and transport entry of every other device id as they
\* were, and a step on no device leaves those of every id as they were.
C13_DevicesIndependent ==
    [][ \/ UNCHANGED <<devices, connections, bridge_sessions,
                       websocket_connections>>
        \/ OthersUntouched ]_vars

\* The handler of one device ends while another device has a live session.
C13_Witness ==
    /\ Exited
    /\ step.device_id = DeviceId(1)
    /\ DeviceId(2) \in DOMAIN bridge_sessions
    /\ DeviceId(2) \in DOMAIN websocket_connections
    /\ DeviceId(2) \in DOMAIN connections
    /\ Status(DeviceId(2)) = "connected"

\* The fields of a device record that are set once, at startup.
FixedFields(device) == [device EXCEPT !.status = "any", !.last_seen = 0]

\* The step is one that calls connect or disconnect: an accepted REST
\* connect, the opening of a WebSocket, or the end of a handler.
CallsConnectOrDisconnect(s) ==
    \/ s.kind = "rest" /\ s.op = "connect" /\ s.code = 200
    \/ s.kind = "ws" /\ (s.on.type = "accept" \/ s.raised # Running)

\* What connect or disconnect does to record k: status "connected" and a new
\* last_seen, or status "disconnected" with the session record removed.
ConnectedOrDisconnected(k) ==
    \/ /\ devices'[k].status = "connected"
       /\ devices'[k].last_seen = now
       /\ devices[k].device_id \in DOMAIN connections'
    \/ /\ devices'[k].status = "disconnected"
       /\ devices'[k].last_seen = devices[k].last_seen
       /\ devices[k].device_id \in DOMAIN connections
       /\ devices[k].device_id \notin DOMAIN connections'

\* C14: the registry never gains or loses a device id, so /health always
\* reports DEVICE_POOL_SIZE devices; of a device record only status and
\* last_seen change, and only in a step that calls connect or disconnect,
\* on the device that step is about and in the way connect or disconnect
\* changes it; commands, message processing and the read-only routes leave
\* every record as it is.
C14_RegistryFixed ==
    [][ /\ Len(devices') = Len(devices)
        /\ \A k \in 1..Len(devices) :
              FixedFields(devices'[k]) = FixedFields(devices[k])
        /\ (step'.kind = "rest" /\ step'.op = "health") =>
              step'.body.device_count = DEVICE_POOL_SIZE
        /\ devices' # devices =>
              /\ CallsConnectOrDisconnect(step')
              /\ \A k \in 1..Len(devices) :
                    devices'[k] # devices[k] =>
                        /\ devices[k].device_id = step'.device_id
                        /\ ConnectedOrDisconnected(k) ]_vars

\* /health after one device was connected and another disconnected.
C14_Witness ==
    /\ RestStep("health")
    /\ step.body.device_count = DEVICE_POOL_SIZE
    /\ Status(DeviceId(1)) = "disconnected"
    /\ Status(DeviceId(2)) = "connected"

\* The step calls connect on device_id: a REST connect with the right key,
\* or the opening of a WebSocket.
CallsConnect(s, device_id) ==
    \/ /\ s.kind = "rest" /\ s.op = "connect"
       /\ s.api_key = API_KEY /\ s.device_id = device_id
    \/ s.kind = "ws" /\ s.on.type = "accept" /\ s.device_id = device_id

\* C15: a device has at most one session record (connections holds one
\* record per device id), and a connect on a device that has one is not
\* rejected: the record is replaced by one with a session id that differs
\* from the old one and from every id created before, the status is
\* "connected", and a REST caller gets 200 with the new id.
C15_LastWriterWins ==
    [][ \A d \in DOMAIN connections :
           CallsConnect(step', d) =>
              /\ d \in DOMAIN connections'
              /\ connections'[d].session_id # connections[d].session_id
              /\ \A i \in 1..Len(issued) :
                    connections'[d].session_id # issued[i]
              /\ Status(d)' = "connected"
              /\ step'.kind = "rest" =>
                    /\ step'.code = 200
                    /\ step'.body.session_id = connections'[d].session_id
       ]_vars

\* A REST connect on a device whose WebSocket handler, still running,
\* created the only earlier session of the run.
C15_Witness ==
    /\ RestStep("connect")
    /\ step.code = 200
    /\ Len(issued) = 2
    /\ DOMAIN connections = {step.device_id}
    /\ connections[step.device_id].session_id = issued[2]
    /\ \E h \in Handlers : pc[h] = "receiving" /\ dev[h] = step.device_id

\* Handler h has just ended and nothing is left of its session.
EndedAndCleaned(h) ==
    /\ Exited
    /\ step.h = h
    /\ step.device_id \notin DOMAIN websocket_connections
    /\ step.device_id \notin DOMAIN bridge_sessions
    /\ step.device_id \notin DOMAIN connections
    /\ InRegistry(devices, step.device_id) =>
          Status(step.device_id) = "disconnected"

\* C16: once the client has closed the transport of a running handler, the
\* handler eventually ends, with the device's session records removed and
\* the device "disconnected", whatever the handler was doing when the
\* transport closed.
C16_CloseEndsHandler ==
    \A h \in Handlers :
        (pc[h] # "idle" /\ transport[h] = "closed") ~> EndedAndCleaned(h)

\* A handler ends on WebSocketDisconnect after it had processed a message.
C16_Witness ==
    /\ Exited
    /\ step.on.type = "disconnect"
    /\ InRegistry(devices, step.device_id)
    /\ Status(step.device_id) = "disconnected"
    /\ now = MaxClock

\* C17: a transport fault (the peer closes abruptly, or sends a frame that
\* cannot be parsed) makes the handler run its disconnect transition and
\* return normally: no exception leaves handle_device_connection.
C17_FaultsAbsorbed ==
    (step.kind = "ws" /\ step.on.type \in {"disconnect", "fault"}) =>
        /\ step.raised = "Returned"
        /\ step.device_id \notin DOMAIN websocket_connections
        /\ step.device_id \notin DOMAIN bridge_sessions
        /\ step.device_id \notin DOMAIN connections

\* C18: a read_flash command on a connected device is answered with a
\* result whose declared size is the requested size (1024 when the request
\* gives none) and is the number of bytes its base64 data decodes to.
C18_ReadFlashRoundTrip ==
    (RestStep("command") /\ step.command = "read_flash"
         /\ InRegistry(devices, step.device_id)
         /\ Status(step.device_id) = "connected") =>
        /\ step.code = 200
        /\ step.body.response.result.kind = "flash"
        /\ step.body.response.result.size = DefaultReadSize
        /\ B64DecodedLen(step.body.response.result.data_len,
                         step.body.response.result.data_pad) =
              step.body.response.result.size

\* C19: a "command" message received by a handler yields one
\* "command_response" event, sent on that handler's own transport and
\* tagged with the command's name.
C19_OneResponsePerCommand ==
    (step.kind = "ws" /\ step.on.type = "command") =>
        /\ Len(step.sends) = 1
        /\ step.sends[1].to = step.h
        /\ step.sends[1].event.type = "command_response"
        /\ step.sends[1].event.command = step.on.command

\* C20: when "connection_established" is sent on a WebSocket for device id
\* d, d is a registry device with status "connected" that has a session
\* record, whatever id the client put in the path.
C20_EstablishedMeansConnected ==
    (/\ step.kind = "ws"
     /\ \E i \in 1..Len(step.sends) :
           step.sends[i].event.type = "connection_established") =>
        /\ InRegistry(devices, step.device_id)
        /\ Status(step.device_id) = "connected"
        /\ step.device_id \in DOMAIN connections

\* The command responses handed out by the step just taken.
StepResponses ==
    IF RestStep("command") /\ step.code = 200
    THEN {step.body.response}
    ELSE IF step.kind = "ws"
    THEN {step.sends[i].event.response :
             i \in {j \in 1..Len(step.sends) :
                       step.sends[j].event.type = "command_response"}}
    ELSE {}

C22_RestCommandNeedsStatusOnly ==
    RestStep("command") =>
        /\ ~InRegistry(devices, step.device_id) => step.code = 404
        /\ (/\ InRegistry(devices, step.device_id)
            /\ Status(step.device_id) = "connected"
            /\ step.command \in SupportedCommands) =>
              /\ step.code = 200
              /\ step.body.response.success = TRUE

\* C23: execute_command checks that the device exists, then that it is
\* connected, then the command name: any command on an unknown id returns
\* "not found", any command, known or not, on a device that is not
\* connected returns "not connected", and an unknown command on a connected
\* device returns success = false with the "unknown command" error instead
\* of raising.
C23_PreconditionOrder ==
    \A d \in DeviceIdInputs, c \in CommandInputs \cup {UnknownCommand} :
        /\ ~InRegistry(devices, d) =>
              execute_command(devices, d, c) =
                  Returns(CommandResponse(FALSE, NoResult, "not_found"))
        /\ (InRegistry(devices, d) /\ Status(d) # "connected") =>
              execute_command(devices, d, c) =
                  Returns(CommandResponse(FALSE, NoResult, "not_connected"))
        /\ (InRegistry(devices, d) /\ Status(d) = "connected"
                /\ c = UnknownCommand) =>
              execute_command(devices, d, c) =
                  Returns(CommandResponse(FALSE, NoResult, "unknown_command"))

\* The handler that took the step is still running, with its session.
StillActive ==
    /\ step.raised = Running
    /\ pc[step.h] # "idle"
    /\ step.device_id \in DOMAIN bridge_sessions
    /\ step.device_id \in DOMAIN websocket_connections

\* C24: a "status_update" message, like a message of any other or of no
\* type, sends nothing and leaves the session active; a "data_transfer"
\* message leaves the session active and is completed by at most one event,
\* a "transfer_complete"; none of them ends the handler, so none changes a
\* device's status.
C24_MessageEffects ==
    step.kind = "ws" =>
        /\ step.on.type \in {"status_update", "other"} =>
              StillActive /\ step.sends = <<>>
        /\ step.on.type = "data_transfer" =>
              StillActive /\ step.sends = <<>>
        /\ (step.on.type = "wake" /\ step.raised = Running) =>
              /\ Len(step.sends) <= 1
              /\ \A i \in 1..Len(step.sends) :
                    step.sends[i].event.type = "transfer_complete"

\* C25: a device id that has a session record in the simulator's
\* connections is a registry device with status "connected".
C25_SessionImpliesConnected ==
    \A d \in DOMAIN connections :
        InRegistry(devices, d) /\ Status(d) = "connected"

\* Two devices with a session record, one created by a WebSocket handler
\* that is running.
C25_Witness ==
    /\ DOMAIN connections = {DeviceId(1), DeviceId(2)}
    /\ \E h \in Handlers : pc[h] = "receiving" /\ dev[h] = DeviceId(2)

\* C26: a device goes from "connected" to "disconnected", or loses its
\* session record, only in the step in which a WebSocket handler of that
\* device id ends; no REST request does either.
C26_OnlyHandlerEndDisconnects ==
    [][ \A k \in 1..Len(devices) :
           (\/ /\ devices[k].status = "connected"
               /\ devices'[k].status = "disconnected"
            \/ /\ devices[k].device_id \in DOMAIN connections
               /\ devices[k].device_id \notin DOMAIN connections') =>
              /\ step'.kind = "ws"
              /\ step'.raised # Running
              /\ step'.device_id = devices[k].device_id ]_vars

\* The end of a handler has disconnected a device that started out
\* disconnected, after REST requests on it were answered.
C26_Witness ==
    /\ Exited
    /\ step.device_id = DeviceId(2)
    /\ Status(DeviceId(2)) = "disconnected"
    /\ DeviceId(2) \notin DOMAIN connections
    /\ Len(issued) = 2
    /\ \A h \in Handlers : pc[h] = "idle"

\* C27: the message_count of a running handler's bridge session equals
\* the number of messages its own transport has delivered since it was
\* opened, also when several WebSockets are open for one device id.
C27_MessageCountIsDelivered ==
    \A h \in Handlers :
        (pc[h] # "idle" /\ dev[h] \in DOMAIN bridge_sessions) =>
            bridge_sessions[dev[h]].message_count = delivered[h]

\* C28: websocket_connections and bridge_sessions have the same device
\* ids as keys whenever a handler is suspended, that is, in every state
\* another handler or request can observe.
C28_SameKeys ==
    DOMAIN websocket_connections = DOMAIN bridge_sessions

\* A handler has ended and removed its entries while another device's
\* handler keeps its own.
C28_Witness ==
    /\ Exited
    /\ step.device_id = DeviceId(1)
    /\ DOMAIN websocket_connections = {DeviceId(2)}
    /\ DOMAIN bridge_sessions = {DeviceId(2)}

====
